---- MODULE Spec2Model ----
(***************************************************************************)
(* BHASHASETU: the authentication session lifecycle of the client.         *)
(*                                                                         *)
(*   AuthProvider  (contexts/AuthContext)  the Session Store               *)
(*   AuthCallback  (pages/AuthCallback)    the handler of /auth/callback   *)
(*   GoogleLogin / LearnerModule           the identity controls           *)
(*                                                                         *)
(* The hosted auth backend is an external collaborator: it holds the       *)
(* current session, answers getSession / signInWithOAuth / signOut         *)
(* asynchronously and delivers auth-change events to the subscription.     *)
(* One document (page load) is modelled at a time; an assignment to        *)
(* window.location.href schedules a navigation, and the document keeps     *)
(* running until the next document is loaded.                              *)
(*                                                                         *)
(*   AppContent    (App)                   the Navigation Controller       *)
(*   LandingPage, LearnerModule, AdminDashboard, TranslationModule,        *)
(*   VoiceModule                           the Screen Presenters           *)
(*                                                                         *)
(* All actions are over one state. Four specifications compose them:       *)
(*   Spec            authentication and AuthCallback, with the redirect    *)
(*   SpecNavigation  the user's navigation, the redirect, sign-out, reload *)
(*   SpecTeardown    unmounting the React root                             *)
(*   SpecPresenters  the presenters' local state beside navigation         *)
(***************************************************************************)
EXTENDS Integers, Sequences, FiniteSets

\* ---------------------------------------------------------------- bounds
MaxSessions == 1      \* distinct sessions the backend can issue
MaxRuns     == 3      \* handleAuthCallback runs started during one visit
MaxInFlight == 2      \* signInWithGoogle calls awaiting the backend, and signOut calls likewise
MaxTimers   == 1      \* pending landing-to-learner timeouts

\* ------------------------------------------------------------ the values
NoSession == 0
NoUser    == 0
Sessions  == 1..MaxSessions

\* Session.user: every session carries its own user object.
UserOf(s) == MaxSessions + s

RootUrl         == "/"
CallbackPath    == "/auth/callback"
AuthFailedUrl   == "/?error=auth_failed"
UnexpectedUrl   == "/?error=unexpected_error"
NoNav           == "none"

SignInAlert  == "Failed to sign in with Google. Please try again."
SignOutAlert == "Failed to sign out. Please try again."

Alert(msg)   == <<"alert", msg>>
Href(target) == <<"href", target>>

\* Outcomes of an awaited backend call: a value without error, a value
\* carrying an error, or a rejected promise.
Outcomes == {"ok", "error", "throw"}

VARIABLES
  url,             \* URL of the current document
  backendSession,  \* the session the backend currently holds
  store,           \* AuthProvider state: [user, session, loading]
  initFetch,       \* getInitialSession: [pc, outcome, value]
  lastEvent,       \* <<>> or <<s>>: session of the most recently delivered auth-change event
  loadingWriter,   \* the code place that last wrote loading
  signIns,         \* signInWithGoogle calls awaiting signInWithOAuth
  signOuts,        \* number of signOut calls awaiting supabase.auth.signOut
  runs,            \* handleAuthCallback runs of this visit
  pendingNav,      \* last value assigned to window.location.href, or NoNav
  last,            \* what the most recent step did
  mounted,         \* the React tree (AuthProvider and below) is mounted
  subscriptions,   \* live onAuthStateChange subscriptions of this document
  currentPage,     \* AppContent state: the current screen
  redirectTimers,  \* pending setTimeout(() => setCurrentPage('learner'), 0)
  local,           \* useState values of the mounted Screen Presenter
  hist             \* history of this document: a session was written to the store,
                   \* the redirect fired for the present user

authVars == <<url, backendSession, store, initFetch, lastEvent, loadingWriter,
              signIns, signOuts, runs, pendingNav>>

vars == <<url, backendSession, store, initFetch, lastEvent, loadingWriter,
          signIns, signOuts, runs, pendingNav, last,
          mounted, subscriptions, currentPage, redirectTimers, local, hist>>

\* window.location.pathname of a URL
Pathname(u) == IF u = CallbackPath THEN CallbackPath ELSE RootUrl

\* ------------------------------------------------------- Session Store
\* a projection that drops the session's user
SessionUserDropped(s) == NoUser

\* session?.user ?? null
SessionUser(s) == IF s = NoSession THEN NoUser ELSE UserOf(s)

\* useState initial values of AuthProvider
InitialStore == [user |-> NoUser, session |-> NoSession, loading |-> TRUE]

\* getInitialSession after its await: setSession, setUser, setLoading(false)
GetInitialSessionResolved(st, s) ==
  [st EXCEPT !.session = s, !.user = SessionUser(s), !.loading = FALSE]

\* a callback that mirrors the session but leaves loading as it was
OnAuthStateChangeKeepsLoading(st, s) ==
  [st EXCEPT !.session = s, !.user = SessionUser(s)]

\* the onAuthStateChange callback: setSession, setUser, setLoading(false)
OnAuthStateChange(st, s) ==
  [st EXCEPT !.session = s, !.user = SessionUser(s), !.loading = FALSE]

\* data.session of a getSession answer: null when the answer carries an error
DataSession(outcome, s) == IF outcome = "ok" THEN s ELSE NoSession

\* `if (error) throw error` and a rejected await both enter the catch block
Thrown(outcome) == outcome \in {"error", "throw"}


\* identity controls without the loading test
IdentityViewNoSpinner(st) ==
  IF st.user # NoUser THEN "profile" ELSE "signin"

\* The identity controls (GoogleLogin; LearnerModule's header has the same
\* order with a guest greeting in place of the button): loading first, then
\* the profile with the logout control, then the sign-in button.
IdentityView(st) ==
  IF st.loading THEN "spinner"
  ELSE IF st.user # NoUser THEN "profile"
  ELSE "signin"

\* a body that resets loading in a finally block, on success too
SignInAfterAwaitFinally(outcome) ==
  IF Thrown(outcome)
    THEN << Alert(SignInAlert), <<"setLoading", "false">> >>
    ELSE << <<"setLoading", "false">> >>

\* a body without `if (error) throw error`: only a rejection reaches catch
SignInAfterAwaitIgnoresError(outcome) ==
  IF outcome = "throw"
    THEN << Alert(SignInAlert), <<"setLoading", "false">> >>
    ELSE << >>

\* a catch block that alerts but does not reset loading
SignInAfterAwaitNoReset(outcome) ==
  IF Thrown(outcome) THEN << Alert(SignInAlert) >> ELSE << >>

\* signInWithGoogle after `await supabase.auth.signInWithOAuth(...)`
SignInAfterAwait(outcome) ==
  IF Thrown(outcome)
    THEN << Alert(SignInAlert), <<"setLoading", "false">> >>
    ELSE << >>

\* a body that checks the returned error but has no try/catch
SignInPromiseUncaught(outcome) ==
  IF outcome = "throw" THEN "rejected" ELSE "resolved"

\* the promise signInWithGoogle returns: the catch block covers the whole body
SignInPromise(outcome) ==
  IF Thrown(outcome) THEN "resolved" ELSE "resolved"

\* a catch block that returns after the alert, so only a successful sign-out navigates
SignOutAfterAwaitReturnsOnFailure(outcome) ==
  IF Thrown(outcome) THEN << Alert(SignOutAlert) >> ELSE << Href(RootUrl) >>

\* signOut after `await supabase.auth.signOut()`: the alert on failure, then
\* the navigation outside the first try/catch
SignOutAfterAwait(outcome) ==
  (IF Thrown(outcome) THEN << Alert(SignOutAlert) >> ELSE << >>)
    \o << Href(RootUrl) >>

\* the promise signOut returns
SignOutPromise(outcome) ==
  IF Thrown(outcome) THEN "resolved" ELSE "resolved"

\* ------------------------------------------------------- Auth callback
\* One run of handleAuthCallback. `user` is the value the effect's closure
\* captured from the render that started the run.
NewRun(u) ==
  [user |-> u, pc |-> "delay", storeUser |-> NoUser, fetched |-> FALSE,
   outcome |-> "none", dataSession |-> NoSession,
   redirects |-> << >>, result |-> "pending"]

GetSessionCall == <<"call", "getSession">>

\* handleAuthCallback after the 1000 ms delay: `if (user)` reads the closure
HandleAuthCallbackAfterDelay(closureUser) ==
  IF closureUser # NoUser THEN << Href(RootUrl) >> ELSE << GetSessionCall >>

\* a handler that stays on the callback view when no session is found
HandleAuthCallbackAfterGetSessionStays(outcome, dataSession) ==
  IF outcome = "throw" THEN << Href(UnexpectedUrl) >>
  ELSE IF outcome = "error" THEN << Href(AuthFailedUrl) >>
  ELSE IF dataSession # NoSession THEN << Href(RootUrl) >>
  ELSE << >>

\* the error branch without its `return`: it falls through to the session test
HandleAuthCallbackAfterGetSessionNoReturn(outcome, dataSession) ==
  IF outcome = "throw" THEN << Href(UnexpectedUrl) >>
  ELSE (IF outcome = "error" THEN << Href(AuthFailedUrl) >> ELSE << >>)
         \o << Href(RootUrl) >>

\* an absent session treated as a failure
HandleAuthCallbackAfterGetSessionMarksAbsent(outcome, dataSession) ==
  IF outcome = "throw" THEN << Href(UnexpectedUrl) >>
  ELSE IF outcome = "error" THEN << Href(AuthFailedUrl) >>
  ELSE IF dataSession # NoSession THEN << Href(RootUrl) >>
  ELSE << Href(AuthFailedUrl) >>

\* handleAuthCallback after `await supabase.auth.getSession()`
HandleAuthCallbackAfterGetSession(outcome, dataSession) ==
  IF outcome = "throw" THEN << Href(UnexpectedUrl) >>
  ELSE IF outcome = "error" THEN << Href(AuthFailedUrl) >>
  ELSE IF dataSession # NoSession THEN << Href(RootUrl) >>
  ELSE << Href(RootUrl) >>

\* a handler without the outer try/catch
HandleAuthCallbackPromiseUncaught(outcome) ==
  IF outcome = "throw" THEN "rejected" ELSE "resolved"

\* the promise handleAuthCallback returns: try/catch around the whole body
HandleAuthCallbackPromise(outcome) ==
  IF outcome = "throw" THEN "resolved" ELSE "resolved"

\* ------------------------------------------------ Navigation Controller
\* type Page
Pages == {"landing", "learner", "admin", "translation", "voice"}

\* a switch whose 'voice' case mounts the translation presenter
RenderPageVoiceSwapped(page) ==
  CASE page = "landing"     -> "LandingPage"
    [] page = "learner"     -> "LearnerModule"
    [] page = "admin"       -> "AdminDashboard"
    [] page = "translation" -> "TranslationModule"
    [] page = "voice"       -> "TranslationModule"
    [] OTHER                -> "LandingPage"

\* renderPage: the switch over currentPage with its default
RenderPage(page) ==
  CASE page = "landing"     -> "LandingPage"
    [] page = "learner"     -> "LearnerModule"
    [] page = "admin"       -> "AdminDashboard"
    [] page = "translation" -> "TranslationModule"
    [] page = "voice"       -> "VoiceModule"
    [] OTHER                -> "LandingPage"

\* a render that tests user before the callback route
AppContentRenderRedirectFirst(path, page, user) ==
  [view     |-> IF path = CallbackPath THEN "AuthCallback" ELSE RenderPage(page),
   redirect |-> user # NoUser /\ page = "landing"]

\* a render that schedules the redirect for guests too
AppContentRenderIgnoresUser(path, page, user) ==
  IF path = CallbackPath
    THEN [view |-> "AuthCallback", redirect |-> FALSE]
    ELSE [view |-> RenderPage(page), redirect |-> page = "landing"]

\* One render of AppContent: the callback route returns AuthCallback before
\* anything else; otherwise a user on "landing" schedules the redirect
\* timeout and the current screen's presenter is rendered.
AppContentRender(path, page, user) ==
  IF path = CallbackPath
    THEN [view |-> "AuthCallback", redirect |-> FALSE]
    ELSE [view |-> RenderPage(page), redirect |-> user # NoUser /\ page = "landing"]

RedirectTimeout == <<"setTimeout", "learner">>

\* what a re-render of AppContent does besides returning its view
RenderEffects(path, page, user) ==
  IF AppContentRender(path, page, user).redirect THEN << RedirectTimeout >> ELSE << >>

\* a timeout callback that lands on the dashboard
RedirectCallbackToAdmin(page) == "admin"

\* the timeout callback: () => setCurrentPage('learner')
RedirectCallback(page) == "learner"

\* a navigate that treats the screen already shown as "go home"
NavigateAppSameScreenGoesHome(a, target) ==
  [a EXCEPT !.page = IF target = a.page THEN "landing" ELSE target,
            !.timers = IF target # a.page
                         THEN @ + Len(RenderEffects(a.path, target, a.user))
                         ELSE @]

\* onNavigate = setCurrentPage: the state is replaced by the target; React
\* re-renders AppContent only when the value changed.
NavigateApp(a, target) ==
  [a EXCEPT !.page = target,
            !.timers = IF target # a.page
                         THEN @ + Len(RenderEffects(a.path, target, a.user))
                         ELSE @]

\* presenters where the translation workbench links to the voice studio
NavControlsWithShortcut(page) ==
  CASE page = "landing"     -> {"learner", "admin"}
    [] page = "learner"     -> {"landing"}
    [] page = "admin"       -> {"landing", "translation", "voice"}
    [] page = "translation" -> {"admin", "voice"}
    [] page = "voice"       -> {"admin"}

\* the onNavigate controls each presenter renders
NavControls(page) ==
  CASE page = "landing"     -> {"learner", "admin"}
    [] page = "learner"     -> {"landing"}
    [] page = "admin"       -> {"landing", "translation", "voice"}
    [] page = "translation" -> {"admin"}
    [] page = "voice"       -> {"admin"}

\* ----------------------------------------------------- Screen Presenters
NumLessons  == 5
Tabs        == {"overview", "modules", "learners", "analytics"}
MaxGlossary == 3      \* glossary terms kept in the model
EmptyTerm   == [term |-> "", translation |-> ""]

\* useState initial values of the presenter of a screen
InitialLocal(page) ==
  CASE page = "landing"     -> [mobileMenuOpen |-> FALSE]
    [] page = "learner"     -> [isDualLanguage |-> TRUE, currentLesson |-> 0]
    [] page = "admin"       -> [activeTab |-> "overview"]
    [] page = "translation" -> [isTranslating |-> FALSE, pending |-> 0,
                                glossaryTerms |-> << [term |-> "Welding", translation |-> "hi:Welding"],
                                                     [term |-> "Arc", translation |-> "hi:Arc"] >>]
    [] page = "voice"       -> [isProcessing |-> FALSE, pending |-> 0]

\* a start control that stays enabled while the mock is busy
StartEnabledAlways(busy) == TRUE

\* the start control of a mock: disabled={isTranslating}, disabled={isProcessing}
StartEnabled(busy) == ~busy

\* addGlossaryTerm: [...glossaryTerms, { term: '', translation: '' }]
AddGlossaryTerm(terms) == Append(terms, EmptyTerm)

\* a filter that counts the entries from 1
RemoveGlossaryTermOneBased(terms, index) ==
  LET keep == { i \in DOMAIN terms : i # index }
      pos(k) == CHOOSE i \in keep : Cardinality({ j \in keep : j < i }) = k - 1
  IN [k \in 1..Cardinality(keep) |-> terms[pos(k)]]

\* removeGlossaryTerm: glossaryTerms.filter((_, i) => i !== index), index from 0
RemoveGlossaryTerm(terms, index) ==
  LET keep == { i \in DOMAIN terms : i - 1 # index }
      pos(k) == CHOOSE i \in keep : Cardinality({ j \in keep : j < i }) = k - 1
  IN [k \in 1..Cardinality(keep) |-> terms[pos(k)]]

\* ------------------------------------------------------------- helpers
Hrefs(effects) == SelectSeq(effects, LAMBDA e : e[1] = "href")

Targets(effects) == [i \in DOMAIN Hrefs(effects) |-> Hrefs(effects)[i][2]]

\* window.location.href after the effects: the last assignment wins
LocationAfter(effects, cur) ==
  IF Hrefs(effects) = << >> THEN cur ELSE Hrefs(effects)[Len(Hrefs(effects))][2]

Contains(effects, e) == \E i \in DOMAIN effects : effects[i] = e

Step(op, outcome, effects, result, userAtCall, dirty) ==
  [op |-> op, outcome |-> outcome, effects |-> effects, result |-> result,
   userAtCall |-> userAtCall, dirty |-> dirty]

\* AuthCallback's effect has [user] as its dependency: a store write that
\* changes user while the callback view is mounted starts another run.
RunsAfterWrite(newStore) ==
  IF Pathname(url) = CallbackPath /\ newStore.user # store.user
    THEN Append(runs, NewRun(newStore.user))
    ELSE runs

CanWrite(newStore) ==
  (Pathname(url) = CallbackPath /\ newStore.user # store.user) => Len(runs) < MaxRuns

MarkDirty(calls) == [i \in DOMAIN calls |-> [calls[i] EXCEPT !.dirty = TRUE]]

RemoveAt(seq, i) == SubSeq(seq, 1, i - 1) \o SubSeq(seq, i + 1, Len(seq))

\* ------------------------------------------------------- React helpers
\* A state update of an unmounted component is dropped.
Commit(newStore) == IF mounted THEN newStore ELSE store

\* What is on screen.
View ==
  IF mounted THEN AppContentRender(Pathname(url), currentPage, store.user).view
  ELSE "none"

NoLocal == [presenter |-> "none"]

\* the presenter state after the current screen became `page`
LocalAfter(page) == IF page # currentPage THEN InitialLocal(page) ELSE local

\* AppContent as NavigateApp sees it
AppState ==
  [page |-> currentPage, timers |-> redirectTimers,
   user |-> store.user, path |-> Pathname(url)]

\* A store write makes AppContent (a context consumer) render again when a
\* value changed; a session object is a new value on every write.
StoreRenderEffects(newStore, fresh) ==
  IF mounted /\ (newStore # store \/ (fresh /\ newStore.session # NoSession))
    THEN RenderEffects(Pathname(url), currentPage, newStore.user)
    ELSE << >>

CanSchedule(effects) == redirectTimers + Len(effects) <= MaxTimers

InitialHist == [sawSession |-> FALSE, redirected |-> FALSE]

\* history after getInitialSession or the subscription callback wrote newStore
HistAfterWrite(newStore) ==
  IF mounted
    THEN [hist EXCEPT !.sawSession = @ \/ newStore.session # NoSession,
                      !.redirected = @ /\ newStore.user = store.user]
    ELSE hist

\* a cleanup that does not cancel the subscription
UnsubscribeForgotten(n) == n

\* the effect's cleanup: () => subscription.unsubscribe()
Unsubscribe(n) == n - 1

\* ---------------------------------------------------------------- Init
\* A document load: AuthProvider mounts (getInitialSession is called and the
\* subscription registered), AppContent renders AuthCallback on the callback
\* path, whose effect starts the first run with the initial user.
InitialFetch == [pc |-> "called", outcome |-> "none", value |-> NoSession]

InitialRuns(u) == IF Pathname(u) = CallbackPath THEN << NewRun(InitialStore.user) >> ELSE << >>

\* the presenter state of a freshly loaded document
MountLocal(u) == IF Pathname(u) = CallbackPath THEN NoLocal ELSE InitialLocal("landing")

Init ==
  /\ url \in {RootUrl, CallbackPath}
  /\ backendSession \in {NoSession} \cup Sessions
  /\ store = InitialStore
  /\ initFetch = InitialFetch
  /\ lastEvent = << >>
  /\ loadingWriter = "mount"
  /\ signIns = << >>
  /\ signOuts = 0
  /\ runs = InitialRuns(url)
  /\ pendingNav = NoNav
  /\ last = Step("mount", "none", << >>, "none", NoUser, FALSE)
  /\ mounted = TRUE
  /\ subscriptions = 1
  /\ currentPage = "landing"
  /\ redirectTimers = 0
  /\ local = MountLocal(url)
  /\ hist = InitialHist

\* ------------------------------------------------------------- actions
\* The backend answers the initial getSession with what it holds now.
InitFetchRead(outcome) ==
  /\ initFetch.pc = "called"
  /\ initFetch' = [pc |-> "read", outcome |-> outcome,
                   value |-> DataSession(outcome, backendSession)]
  /\ last' = Step("getSession", outcome, << >>, "none", NoUser, FALSE)
  /\ UNCHANGED <<url, backendSession, store, lastEvent, loadingWriter,
                 signIns, signOuts, runs, pendingNav>>
  /\ UNCHANGED <<mounted, subscriptions, currentPage, redirectTimers, local, hist>>

\* getInitialSession resumes after its await. A rejected getSession leaves
\* the function at the await: nothing is written.
InitFetchResolve ==
  /\ initFetch.pc = "read"
  /\ IF initFetch.outcome = "throw"
       THEN /\ initFetch' = [initFetch EXCEPT !.pc = "rejected"]
            /\ last' = Step("getInitialSession", initFetch.outcome, << >>, "rejected", NoUser, FALSE)
            /\ UNCHANGED <<store, loadingWriter, runs, signIns, redirectTimers, hist>>
       ELSE LET new     == Commit(GetInitialSessionResolved(store, initFetch.value))
                effects == StoreRenderEffects(new, TRUE)
            IN
            /\ CanWrite(new)
            /\ CanSchedule(effects)
            /\ store' = new
            /\ initFetch' = [initFetch EXCEPT !.pc = "resolved"]
            /\ loadingWriter' = IF mounted THEN "getInitialSession" ELSE loadingWriter
            /\ runs' = RunsAfterWrite(new)
            /\ signIns' = IF mounted THEN MarkDirty(signIns) ELSE signIns
            /\ redirectTimers' = redirectTimers + Len(effects)
            /\ hist' = HistAfterWrite(new)
            /\ last' = Step("getInitialSession", initFetch.outcome, effects, "resolved", NoUser, FALSE)
  /\ UNCHANGED <<url, backendSession, lastEvent, signOuts, pendingNav>>
  /\ UNCHANGED <<mounted, subscriptions, currentPage, local>>

\* The backend's session becomes s (sign-in, sign-out, token refresh, or the
\* initial session re-announced) and every live subscription's callback is
\* invoked.
AuthEvent(s) ==
  /\ backendSession' = s
  /\ IF subscriptions > 0
       THEN LET new     == Commit(OnAuthStateChange(store, s))
                effects == StoreRenderEffects(new, TRUE)
            IN
            /\ CanWrite(new)
            /\ CanSchedule(effects)
            /\ store' = new
            /\ lastEvent' = << s >>
            /\ loadingWriter' = IF mounted THEN "onAuthStateChange" ELSE loadingWriter
            /\ runs' = RunsAfterWrite(new)
            /\ signIns' = IF mounted THEN MarkDirty(signIns) ELSE signIns
            /\ redirectTimers' = redirectTimers + Len(effects)
            /\ hist' = HistAfterWrite(new)
            /\ last' = Step("onAuthStateChange", "none", effects, "none", NoUser, FALSE)
       ELSE /\ last' = Step("backend", "none", << >>, "none", NoUser, FALSE)
            /\ UNCHANGED <<store, lastEvent, loadingWriter, runs, signIns, redirectTimers, hist>>
  /\ UNCHANGED <<url, initFetch, signOuts, pendingNav>>
  /\ UNCHANGED <<mounted, subscriptions, currentPage, local>>

\* Click on "Sign in with Google" (GoogleLogin, rendered by LandingPage):
\* signInWithGoogle up to its await.
SignInStart ==
  /\ Pathname(url) = RootUrl
  /\ View = "LandingPage"
  /\ IdentityView(store) = "signin"
  /\ Len(signIns) < MaxInFlight
  /\ LET new     == [store EXCEPT !.loading = TRUE]
         effects == StoreRenderEffects(new, FALSE)
     IN
       /\ CanSchedule(effects)
       /\ store' = new
       /\ redirectTimers' = redirectTimers + Len(effects)
       /\ last' = Step("signInWithGoogle.start", "none",
                       << <<"setLoading", "true">> >> \o effects,
                       "pending", store.user, FALSE)
  /\ loadingWriter' = "signInWithGoogle"
  /\ signIns' = Append(signIns, [userAtCall |-> store.user, dirty |-> FALSE])
  /\ UNCHANGED <<url, backendSession, initFetch, lastEvent, signOuts, runs, pendingNav>>
  /\ UNCHANGED <<mounted, subscriptions, currentPage, local, hist>>

\* signInWithOAuth settles and signInWithGoogle runs to its end. On success
\* the backend sends the browser to the provider, which comes back to
\* redirectTo = <origin>/auth/callback.
SignInComplete(i, outcome) ==
  /\ i \in DOMAIN signIns
  /\ LET effects == SignInAfterAwait(outcome)
         reset   == Contains(effects, <<"setLoading", "false">>)
         new     == IF reset THEN Commit([store EXCEPT !.loading = FALSE]) ELSE store
         render  == StoreRenderEffects(new, FALSE)
     IN
       /\ CanSchedule(render)
       /\ store' = new
       /\ loadingWriter' = IF reset /\ mounted THEN "signInWithGoogle.catch" ELSE loadingWriter
       /\ redirectTimers' = redirectTimers + Len(render)
       /\ pendingNav' = IF outcome = "ok" THEN CallbackPath ELSE pendingNav
       /\ last' = Step("signInWithGoogle", outcome, effects \o render, SignInPromise(outcome),
                       signIns[i].userAtCall, signIns[i].dirty)
  /\ signIns' = RemoveAt(signIns, i)
  /\ UNCHANGED <<url, backendSession, initFetch, lastEvent, signOuts, runs>>
  /\ UNCHANGED <<mounted, subscriptions, currentPage, local, hist>>

\* Click on "Logout" (GoogleLogin on LandingPage, or LearnerModule's header):
\* signOut up to its await.
SignOutStart ==
  /\ Pathname(url) = RootUrl
  /\ View \in {"LandingPage", "LearnerModule"}
  /\ IdentityView(store) = "profile"
  /\ signOuts < MaxInFlight
  /\ signOuts' = signOuts + 1
  /\ last' = Step("signOut.start", "none", << >>, "pending", store.user, FALSE)
  /\ UNCHANGED <<url, backendSession, store, initFetch, lastEvent, loadingWriter,
                 signIns, runs, pendingNav>>
  /\ UNCHANGED <<mounted, subscriptions, currentPage, redirectTimers, local, hist>>

\* supabase.auth.signOut settles and signOut runs to its end. A successful
\* sign-out ends the backend's session.
SignOutComplete(outcome) ==
  /\ signOuts > 0
  /\ signOuts' = signOuts - 1
  /\ backendSession' = IF outcome = "ok" THEN NoSession ELSE backendSession
  /\ LET effects == SignOutAfterAwait(outcome) IN
       /\ pendingNav' = LocationAfter(effects, pendingNav)
       /\ last' = Step("signOut", outcome, effects, SignOutPromise(outcome), NoUser, FALSE)
  /\ UNCHANGED <<url, store, initFetch, lastEvent, loadingWriter, signIns, runs>>
  /\ UNCHANGED <<mounted, subscriptions, currentPage, redirectTimers, local, hist>>

\* The 1000 ms timer of run i fires. Timers of equal delay fire in the order
\* they were set, so earlier runs have left their delay.
CallbackDelayElapsed(i) ==
  /\ i \in DOMAIN runs
  /\ runs[i].pc = "delay"
  /\ \A j \in 1..(i - 1) : runs[j].pc # "delay"
  /\ LET effects == HandleAuthCallbackAfterDelay(runs[i].user)
         fetch   == Contains(effects, GetSessionCall)
     IN
       /\ runs' = [runs EXCEPT ![i] =
                     [@ EXCEPT !.pc = IF fetch THEN "refetch" ELSE "done",
                               !.storeUser = store.user,
                               !.fetched = fetch,
                               !.redirects = Targets(effects),
                               !.result = IF fetch THEN "pending" ELSE "resolved"]]
       /\ pendingNav' = LocationAfter(effects, pendingNav)
       /\ last' = Step("handleAuthCallback.delay", "none", effects, "none", runs[i].user, FALSE)
  /\ UNCHANGED <<url, backendSession, store, initFetch, lastEvent, loadingWriter,
                 signIns, signOuts>>
  /\ UNCHANGED <<mounted, subscriptions, currentPage, redirectTimers, local, hist>>

\* The re-fetch of run i settles and the run finishes.
CallbackRefetchResolve(i, outcome) ==
  /\ i \in DOMAIN runs
  /\ runs[i].pc = "refetch"
  /\ LET data    == DataSession(outcome, backendSession)
         effects == HandleAuthCallbackAfterGetSession(outcome, data)
     IN
       /\ runs' = [runs EXCEPT ![i] =
                     [@ EXCEPT !.pc = "done",
                               !.outcome = outcome,
                               !.dataSession = data,
                               !.redirects = @ \o Targets(effects),
                               !.result = HandleAuthCallbackPromise(outcome)]]
       /\ pendingNav' = LocationAfter(effects, pendingNav)
       /\ last' = Step("handleAuthCallback", outcome, effects,
                       HandleAuthCallbackPromise(outcome), runs[i].user, FALSE)
  /\ UNCHANGED <<url, backendSession, store, initFetch, lastEvent, loadingWriter,
                 signIns, signOuts>>
  /\ UNCHANGED <<mounted, subscriptions, currentPage, redirectTimers, local, hist>>

\* The scheduled navigation takes place: the document is replaced, every
\* pending call and timer of the old one is gone, the backend keeps its session.
PageLoad ==
  /\ pendingNav # NoNav
  /\ url' = pendingNav
  /\ store' = InitialStore
  /\ initFetch' = InitialFetch
  /\ lastEvent' = << >>
  /\ loadingWriter' = "mount"
  /\ signIns' = << >>
  /\ signOuts' = 0
  /\ runs' = InitialRuns(pendingNav)
  /\ pendingNav' = NoNav
  /\ last' = Step("mount", "none", << >>, "none", NoUser, FALSE)
  /\ mounted' = TRUE
  /\ subscriptions' = 1
  /\ currentPage' = "landing"
  /\ redirectTimers' = 0
  /\ local' = MountLocal(pendingNav)
  /\ hist' = InitialHist
  /\ UNCHANGED backendSession

\* The React root is unmounted: the effect cleanup of AuthProvider runs.
\* Timers and pending calls of the document stay; AuthCallback's effect has
\* no cleanup.
Teardown ==
  /\ mounted
  /\ mounted' = FALSE
  /\ subscriptions' = Unsubscribe(subscriptions)
  /\ local' = NoLocal
  /\ last' = Step("teardown", "none", << >>, "none", NoUser, FALSE)
  /\ UNCHANGED authVars
  /\ UNCHANGED <<currentPage, redirectTimers, hist>>

\* A presenter's navigation control calls onNavigate(target).
Navigate(target) ==
  /\ View = RenderPage(currentPage)
  /\ target \in NavControls(currentPage)
  /\ LET a == NavigateApp(AppState, target) IN
       /\ a.timers <= MaxTimers
       /\ currentPage' = a.page
       /\ redirectTimers' = a.timers
       /\ local' = LocalAfter(a.page)
       /\ last' = Step("navigate", target,
                       IF a.timers > redirectTimers THEN << RedirectTimeout >> ELSE << >>,
                       "none", store.user, FALSE)
  /\ UNCHANGED authVars
  /\ UNCHANGED <<mounted, subscriptions, hist>>

\* A redirect timeout fires: setCurrentPage('learner').
RedirectTick ==
  /\ redirectTimers > 0
  /\ IF mounted
       THEN LET a == NavigateApp([AppState EXCEPT !.timers = redirectTimers - 1],
                                 RedirectCallback(currentPage))
            IN
            /\ a.timers <= MaxTimers
            /\ currentPage' = a.page
            /\ redirectTimers' = a.timers
            /\ local' = LocalAfter(a.page)
            /\ hist' = [hist EXCEPT !.redirected = TRUE]
       ELSE /\ redirectTimers' = redirectTimers - 1
            /\ UNCHANGED <<currentPage, local, hist>>
  /\ last' = Step("redirectTick", "none", << >>, "none", store.user, FALSE)
  /\ UNCHANGED authVars
  /\ UNCHANGED <<mounted, subscriptions>>

\* a presenter step that also clears the store's identity
PresenterClearsUser(view, newLocal) ==
  /\ View = view
  /\ local' = newLocal
  /\ store' = [store EXCEPT !.user = NoUser, !.session = NoSession]
  /\ last' = Step("presenter", "none", << >>, "none", NoUser, FALSE)
  /\ UNCHANGED <<url, backendSession, initFetch, lastEvent, loadingWriter,
                 signIns, signOuts, runs, pendingNav>>
  /\ UNCHANGED <<mounted, subscriptions, currentPage, redirectTimers, hist>>

\* A presenter-local step: only the presenter's own useState values change.
Presenter(view, newLocal) ==
  /\ View = view
  /\ local' = newLocal
  /\ last' = Step("presenter", "none", << >>, "none", NoUser, FALSE)
  /\ UNCHANGED authVars
  /\ UNCHANGED <<mounted, subscriptions, currentPage, redirectTimers, hist>>

\* LandingPage: setMobileMenuOpen(!mobileMenuOpen)
LandingToggleMenu ==
  Presenter("LandingPage", [local EXCEPT !.mobileMenuOpen = ~@])

\* LearnerModule: setIsDualLanguage(!isDualLanguage)
LearnerToggleDualLanguage ==
  Presenter("LearnerModule", [local EXCEPT !.isDualLanguage = ~@])

\* LearnerModule: setCurrentLesson(index)
LearnerSelectLesson(index) ==
  Presenter("LearnerModule", [local EXCEPT !.currentLesson = index])

\* AdminDashboard: setActiveTab(tab)
AdminSelectTab(tab) ==
  Presenter("AdminDashboard", [local EXCEPT !.activeTab = tab])

\* TranslationModule.handleTranslate: setIsTranslating(true) and a 2000 ms
\* timeout; `pending` counts the timeouts of this presenter instance. A
\* timeout of an instance that was unmounted meanwhile changes nothing.
HandleTranslate ==
  /\ View = "TranslationModule" /\ StartEnabled(local.isTranslating)
  /\ Presenter("TranslationModule",
               [local EXCEPT !.isTranslating = TRUE, !.pending = @ + 1])

\* the timeout of handleTranslate fires: setIsTranslating(false)
TranslateTimeout ==
  /\ View = "TranslationModule" /\ local.pending > 0
  /\ Presenter("TranslationModule",
               [local EXCEPT !.isTranslating = FALSE, !.pending = @ - 1])

\* TranslationModule.addGlossaryTerm
GlossaryAdd ==
  /\ View = "TranslationModule" /\ Len(local.glossaryTerms) < MaxGlossary
  /\ Presenter("TranslationModule",
               [local EXCEPT !.glossaryTerms = AddGlossaryTerm(@)])

\* TranslationModule.removeGlossaryTerm(index), from the row's delete button
GlossaryRemove(index) ==
  /\ View = "TranslationModule" /\ index < Len(local.glossaryTerms)
  /\ Presenter("TranslationModule",
               [local EXCEPT !.glossaryTerms = RemoveGlossaryTerm(@, index)])

\* VoiceModule.handleGenerateAudio: setIsProcessing(true) and a 3000 ms timeout
HandleGenerateAudio ==
  /\ View = "VoiceModule" /\ StartEnabled(local.isProcessing)
  /\ Presenter("VoiceModule",
               [local EXCEPT !.isProcessing = TRUE, !.pending = @ + 1])

\* the timeout of handleGenerateAudio fires: setIsProcessing(false)
GenerateTimeout ==
  /\ View = "VoiceModule" /\ local.pending > 0
  /\ Presenter("VoiceModule",
               [local EXCEPT !.isProcessing = FALSE, !.pending = @ - 1])

\* Authentication and the AuthCallback handler, on the screens a session
\* leads to by itself (landing, and learner after the redirect).
Next ==
  \/ \E o \in Outcomes : InitFetchRead(o)
  \/ InitFetchResolve
  \/ \E s \in {NoSession} \cup Sessions : AuthEvent(s)
  \/ SignInStart
  \/ \E i \in 1..MaxInFlight, o \in Outcomes : SignInComplete(i, o)
  \/ SignOutStart
  \/ \E o \in Outcomes : SignOutComplete(o)
  \/ \E i \in 1..MaxRuns : CallbackDelayElapsed(i)
  \/ \E i \in 1..MaxRuns, o \in Outcomes : CallbackRefetchResolve(i, o)
  \/ PageLoad
  \/ RedirectTick

Spec == Init /\ [][Next]_vars

\* The Navigation Controller: the user's navigation, the redirect, sign-out
\* and the reload it causes, with the store fed by the initial fetch and the
\* subscription.
NextNavigation ==
  \/ \E o \in Outcomes : InitFetchRead(o)
  \/ InitFetchResolve
  \/ \E s \in {NoSession} \cup Sessions : AuthEvent(s)
  \/ SignOutStart
  \/ \E o \in Outcomes : SignOutComplete(o)
  \/ PageLoad
  \/ \E p \in Pages : Navigate(p)
  \/ RedirectTick

SpecNavigation == Init /\ [][NextNavigation]_vars

\* Unmounting the React root while calls, timers and the backend go on.
NextTeardown ==
  \/ \E o \in Outcomes : InitFetchRead(o)
  \/ InitFetchResolve
  \/ \E s \in {NoSession} \cup Sessions : AuthEvent(s)
  \/ SignInStart
  \/ \E i \in 1..MaxInFlight, o \in Outcomes : SignInComplete(i, o)
  \/ PageLoad
  \/ RedirectTick
  \/ Teardown

SpecTeardown == Init /\ [][NextTeardown]_vars

\* Visits to the callback route: sign-in leads there, the handler leads back.
NextCallback ==
  \/ \E o \in Outcomes : InitFetchRead(o)
  \/ InitFetchResolve
  \/ \E s \in {NoSession} \cup Sessions : AuthEvent(s)
  \/ SignInStart
  \/ \E i \in 1..MaxInFlight, o \in Outcomes : SignInComplete(i, o)
  \/ \E i \in 1..MaxRuns : CallbackDelayElapsed(i)
  \/ \E i \in 1..MaxRuns, o \in Outcomes : CallbackRefetchResolve(i, o)
  \/ PageLoad
  \/ RedirectTick

\* The handler's 1000 ms timeouts fire, and every getSession() it calls
\* completes with some outcome.
SpecCallback ==
  /\ Init /\ [][NextCallback]_vars
  /\ WF_vars(\E i \in 1..MaxRuns : CallbackDelayElapsed(i))
  /\ WF_vars(\E i \in 1..MaxRuns, o \in Outcomes : CallbackRefetchResolve(i, o))

\* The Screen Presenters' own state and the user's navigation, with the store
\* written by the initial fetch and the subscription.
NextPresenters ==
  \/ \E o \in Outcomes : InitFetchRead(o)
  \/ InitFetchResolve
  \/ \E s \in {NoSession} \cup Sessions : AuthEvent(s)
  \/ \E p \in Pages : Navigate(p)
  \/ RedirectTick
  \/ LandingToggleMenu
  \/ LearnerToggleDualLanguage
  \/ \E i \in 0..(NumLessons - 1) : LearnerSelectLesson(i)
  \/ \E t \in Tabs : AdminSelectTab(t)
  \/ HandleTranslate
  \/ TranslateTimeout
  \/ GlossaryAdd
  \/ \E i \in 0..(MaxGlossary - 1) : GlossaryRemove(i)
  \/ HandleGenerateAudio
  \/ GenerateTimeout

SpecPresenters == Init /\ [][NextPresenters]_vars

\* The glossary of the translation workbench: the list starts as any list of
\* up to MaxGlossary entries (the two initial terms and empty terms, in any
\* order and number, as typing in the term inputs can produce) and is edited
\* by the add and delete buttons.
GlossaryInputs ==
  LET entries == { InitialLocal("translation").glossaryTerms[k] : k \in 1..2 } \cup {EmptyTerm}
  IN UNION { [1..n -> entries] : n \in 0..MaxGlossary }

InitGlossary ==
  /\ url = RootUrl
  /\ backendSession = NoSession
  /\ store = InitialStore
  /\ initFetch = InitialFetch
  /\ lastEvent = << >>
  /\ loadingWriter = "mount"
  /\ signIns = << >>
  /\ signOuts = 0
  /\ runs = << >>
  /\ pendingNav = NoNav
  /\ last = Step("mount", "none", << >>, "none", NoUser, FALSE)
  /\ mounted = TRUE
  /\ subscriptions = 1
  /\ currentPage = "translation"
  /\ redirectTimers = 0
  /\ local \in { [InitialLocal("translation") EXCEPT !.glossaryTerms = t] : t \in GlossaryInputs }
  /\ hist = InitialHist

NextGlossary ==
  \/ GlossaryAdd
  \/ \E i \in 0..(MaxGlossary - 1) : GlossaryRemove(i)
  \/ HandleTranslate
  \/ TranslateTimeout

SpecGlossary == InitGlossary /\ [][NextGlossary]_vars

\* The same, with the mocks' timeouts firing: a timeout that is set fires
\* after its delay.
SpecMocks ==
  SpecPresenters /\ WF_vars(TranslateTimeout) /\ WF_vars(GenerateTimeout)


\* ================================================================ claims
\* The store has settled: the initial fetch has resolved or an event arrived.
Settled == initFetch.pc = "resolved" \/ lastEvent # << >>

\* C1: once an auth-change event has been delivered, the store's user is the
\* user of the most recently delivered event, for every interleaving with the
\* resolution of the initial getSession fetch.
C1_LastEventWins ==
  lastEvent # << >> => store.user = SessionUser(lastEvent[1])

\* C2 as stated: once the initial fetch has resolved or an event has been
\* delivered, loading is false whatever has been invoked since.
C2_LoadingOnlyBeforeSettling ==
  Settled => ~store.loading

\* C2 amended: once the store has settled, loading is true only when the last
\* write of loading was signInWithGoogle's setLoading(true).
C2_LoadingTrueOnlyBySignIn ==
  (Settled /\ store.loading) => loadingWriter = "signInWithGoogle"

C2_Witness ==
  Settled /\ store.loading /\ loadingWriter = "signInWithGoogle"

\* C3: the mirrored user is null iff the mirrored session is null, and the
\* user is the session's user.
C3_UserIffSession ==
  /\ (store.user = NoUser) <=> (store.session = NoSession)
  /\ store.session # NoSession => store.user = UserOf(store.session)

C3_Witness ==
  /\ lastEvent # << >> /\ initFetch.pc = "resolved"
  /\ store.session # NoSession /\ store.user = UserOf(store.session)

\* C4: a signOut call whose backend call has completed has assigned "/" to
\* window.location.href, on success, returned error and thrown exception
\* alike, and on the failure paths the alert came before the navigation.
C4_SignOutNavigates ==
  last.op = "signOut" =>
    /\ pendingNav = RootUrl
    /\ last.effects = IF Thrown(last.outcome)
                        THEN << Alert(SignOutAlert), Href(RootUrl) >>
                        ELSE << Href(RootUrl) >>

C4_Witness ==
  last.op = "signOut" /\ last.outcome = "throw" /\ pendingNav = RootUrl

\* A signInWithGoogle call invoked with user = null has just completed with a
\* backend failure.
SignInFailed ==
  last.op = "signInWithGoogle" /\ Thrown(last.outcome) /\ last.userAtCall = NoUser

\* C5 as stated: after a failed sign-in invoked with user = null, the alert
\* was shown, loading is false and user and session are still null.
C5_FailedSignInLeavesNull ==
  SignInFailed =>
    /\ Contains(last.effects, Alert(SignInAlert))
    /\ ~store.loading
    /\ store.user = NoUser /\ store.session = NoSession

\* C5 amended: after a failed sign-in invoked with user = null, the alert was
\* shown and loading is false; user and session are still null when neither
\* the initial fetch nor an auth event wrote the store during the call.
C5_FailedSignInResetsLoading ==
  SignInFailed =>
    /\ Contains(last.effects, Alert(SignInAlert))
    /\ ~store.loading
    /\ ~last.dirty => (store.user = NoUser /\ store.session = NoSession)

C5_Witness ==
  SignInFailed /\ ~last.dirty /\ ~store.loading /\ store.user = NoUser

\* C6: signInWithGoogle and signOut complete normally for every backend
\* outcome, and a failure has been reported through the alert.
C6_NoFailureEscapes ==
  /\ last.op = "signInWithGoogle" =>
       /\ last.result = "resolved"
       /\ Thrown(last.outcome) => Contains(last.effects, Alert(SignInAlert))
  /\ last.op = "signOut" =>
       /\ last.result = "resolved"
       /\ Thrown(last.outcome) => Contains(last.effects, Alert(SignOutAlert))

C6_Witness ==
  last.op = "signInWithGoogle" /\ last.outcome = "throw" /\ last.result = "resolved"

\* C7: when the store reports a user at the moment the delay after mount has
\* elapsed, the visit's redirect is exactly "/" and no run of the visit has
\* re-fetched the session.
C7_StoreUserSkipsRefetch ==
  (runs # << >> /\ runs[1].pc # "delay" /\ runs[1].storeUser # NoUser) =>
    /\ pendingNav = RootUrl
    /\ \A j \in DOMAIN runs : ~runs[j].fetched

\* C8: a run that found no user and whose re-fetch returned an error has
\* redirected to "/?error=auth_failed" and to nothing else.
C8_RefetchErrorMarked ==
  /\ \A i \in DOMAIN runs :
       runs[i].outcome = "error" => runs[i].redirects = << AuthFailedUrl >>
  /\ (last.op = "handleAuthCallback" /\ last.outcome = "error") =>
       /\ last.effects = << Href(AuthFailedUrl) >>
       /\ pendingNav = AuthFailedUrl

C8_Witness ==
  /\ last.op = "handleAuthCallback" /\ last.outcome = "error"
  /\ \E i \in DOMAIN runs :
       /\ runs[i].outcome = "error" /\ runs[i].storeUser = NoUser
       /\ runs[i].redirects = << AuthFailedUrl >>

\* C9: a run in which a step raised an exception has redirected to
\* "/?error=unexpected_error", and no run lets an exception escape.
C9_ExceptionMarked ==
  \A i \in DOMAIN runs :
    /\ runs[i].result # "rejected"
    /\ runs[i].outcome = "throw" =>
         /\ runs[i].redirects = << UnexpectedUrl >>
         /\ runs[i].result = "resolved"

C9_Witness ==
  \E i \in DOMAIN runs :
    /\ runs[i].outcome = "throw" /\ runs[i].result = "resolved"
    /\ pendingNav = UnexpectedUrl

\* C10: every redirect of the callback handler is "/", "/?error=auth_failed"
\* or "/?error=unexpected_error"; auth_failed follows only a re-fetch that
\* returned an error, unexpected_error only a raised exception, and a re-fetch
\* without error redirects to "/" with or without a session.
C10_RedirectTargets ==
  \A i \in DOMAIN runs :
    /\ \A k \in DOMAIN runs[i].redirects :
         /\ runs[i].redirects[k] \in {RootUrl, AuthFailedUrl, UnexpectedUrl}
         /\ runs[i].redirects[k] = AuthFailedUrl => runs[i].outcome = "error"
         /\ runs[i].redirects[k] = UnexpectedUrl => runs[i].outcome = "throw"
    /\ runs[i].outcome = "ok" => runs[i].redirects = << RootUrl >>

C10_Witness ==
  \E i, j \in DOMAIN runs :
    /\ runs[i].outcome = "ok" /\ runs[i].dataSession = NoSession
    /\ runs[i].redirects = << RootUrl >>
    /\ runs[j].outcome = "ok" /\ runs[j].dataSession # NoSession
    /\ runs[j].redirects = << RootUrl >>

\* C11: whenever AppContent has rendered with a user on "landing" off the
\* callback route, a redirect timeout is pending, and a redirect timeout that
\* fires leaves the current screen "learner" (never admin, translation, voice).
C11_RedirectToLearner ==
  /\ (mounted /\ Pathname(url) # CallbackPath /\ store.user # NoUser /\ currentPage = "landing")
       => redirectTimers > 0
  /\ (mounted /\ last.op = "redirectTick") => currentPage = "learner"

C11_Witness ==
  /\ last.op = "redirectTick" /\ mounted
  /\ store.user # NoUser /\ currentPage = "learner" /\ hist.redirected

\* C12: from the present state, navigate(s) makes s the current screen for
\* each of the five screens and changes nothing else of the controller's
\* inputs, and a second navigate(s) leaves screen, user and path as the first
\* left them; a navigation that took place shows its target.
C12_NavigateReplaces ==
  /\ \A s \in Pages :
       LET a1 == NavigateApp(AppState, s)
           a2 == NavigateApp(a1, s)
       IN /\ a1.page = s
          /\ a1.user = AppState.user /\ a1.path = AppState.path
          /\ a2.page = a1.page /\ a2.user = a1.user /\ a2.path = a1.path
  /\ last.op = "navigate" => currentPage = last.outcome

C12_Witness ==
  /\ last.op = "navigate" /\ last.outcome = "voice" /\ currentPage = "voice"
  /\ store.user # NoUser

\* the presenter the specification assigns to each screen
PresenterOf ==
  [p \in Pages |->
     CASE p = "landing"     -> "LandingPage"
       [] p = "learner"     -> "LearnerModule"
       [] p = "admin"       -> "AdminDashboard"
       [] p = "translation" -> "TranslationModule"
       [] p = "voice"       -> "VoiceModule"]

\* C13 as stated: the current screen is "landing" after every load and always
\* one of the five, and in every state exactly the presenter of the current
\* screen is mounted.
C13_PresenterOfCurrentScreen ==
  /\ currentPage \in Pages
  /\ last.op = "mount" => currentPage = "landing"
  /\ View = PresenterOf[currentPage]

\* C13, amended: the current screen is "landing" after every load and always
\* one of the five; while the application is mounted, off the callback route
\* exactly the presenter of the current screen is mounted, and on the callback
\* route AuthCallback is mounted in its place.
C13_PresenterOffCallback ==
  /\ currentPage \in Pages
  /\ last.op = "mount" => currentPage = "landing"
  /\ (mounted /\ Pathname(url) # CallbackPath) => View = PresenterOf[currentPage]
  /\ (mounted /\ Pathname(url) = CallbackPath) => View = "AuthCallback"

C13_Witness ==
  /\ currentPage = "voice" /\ View = "VoiceModule"
  /\ hist.redirected /\ store.user # NoUser

\* C14: a load starts with loading = true, user = null, session = null; when
\* the initial fetch resolves with no session the store is loading = false,
\* user = null, session = null; and as long as neither the fetch nor an auth
\* event has carried a session, user stays null, no redirect is scheduled or
\* has fired, and the screen stays "landing".
C14_NoSessionNoRedirect ==
  /\ last.op = "mount" => (store = InitialStore /\ currentPage = "landing")
  /\ (mounted /\ last.op = "getInitialSession" /\ last.result = "resolved"
        /\ initFetch.value = NoSession)
       => store = [user |-> NoUser, session |-> NoSession, loading |-> FALSE]
  /\ (mounted /\ ~hist.sawSession)
       => /\ store.user = NoUser /\ store.session = NoSession
          /\ redirectTimers = 0 /\ ~hist.redirected
          /\ currentPage = "landing"

C14_Witness ==
  /\ initFetch.pc = "resolved" /\ initFetch.value = NoSession
  /\ last.op = "onAuthStateChange" /\ lastEvent = << NoSession >>
  /\ ~hist.sawSession /\ ~store.loading /\ currentPage = "landing"
  /\ Pathname(url) # CallbackPath

\* C15: on the callback route AppContent renders AuthCallback and no presenter
\* and schedules no redirect, for every current screen and every user; so on
\* that route AuthCallback is what is mounted and no redirect timeout is pending.
C15_CallbackRouteGated ==
  /\ \A p \in Pages, u \in {NoUser} \cup {UserOf(x) : x \in Sessions} :
       AppContentRender(CallbackPath, p, u) = [view |-> "AuthCallback", redirect |-> FALSE]
  /\ (mounted /\ Pathname(url) = CallbackPath)
       => (View = "AuthCallback" /\ redirectTimers = 0 /\ local = NoLocal)

C15_Witness ==
  /\ Pathname(url) = CallbackPath /\ mounted
  /\ store.user # NoUser /\ currentPage = "landing"
  /\ last.op = "onAuthStateChange" /\ View = "AuthCallback"

\* C16 as stated: during one visit to the callback route at most one run of
\* the handler calls getSession(), however the store's user changes.
C16_AtMostOneRefetch ==
  Cardinality({ i \in DOMAIN runs : runs[i].fetched }) <= 1

\* C17 as stated: once the redirect has fired for the present user, a
\* navigate('landing') by that still-authenticated user schedules no further
\* redirect.
C17_RedirectOnlyOnce ==
  (mounted /\ last.op = "navigate" /\ last.outcome = "landing"
     /\ store.user # NoUser /\ hist.redirected)
    => ~Contains(last.effects, RedirectTimeout)

\* C18: user, session and loading change only in a step of the initial fetch,
\* of the subscription callback or of signInWithGoogle; a navigate call, a
\* redirect timeout and every presenter-local action leave them unchanged.
C18_StoreFrame ==
  [][ /\ store' # store =>
           last'.op \in {"getInitialSession", "onAuthStateChange",
                         "signInWithGoogle.start", "signInWithGoogle"}
      /\ last'.op \in {"navigate", "redirectTick", "presenter"} => store' = store
    ]_vars

C18_Witness ==
  /\ last.op = "presenter" /\ View = "TranslationModule"
  /\ Len(local.glossaryTerms) = MaxGlossary /\ local.isTranslating
  /\ store.user # NoUser /\ hist.redirected

\* C19: exactly one subscription is live while the store is mounted and none
\* after its teardown; the subscription callback is never invoked after
\* teardown, and from teardown on user, session and loading do not change
\* whatever the backend announces.
C19_UnsubscribedOnTeardown ==
  /\ [](/\ mounted => subscriptions = 1
        /\ ~mounted => subscriptions = 0
        /\ last.op = "onAuthStateChange" => mounted)
  /\ [][(~mounted /\ ~mounted') => store' = store]_vars

C19_Witness ==
  /\ ~mounted /\ subscriptions = 0
  /\ last.op = "backend" /\ backendSession # NoSession
  /\ store.session # backendSession

\* what the initial fetch and the most recent auth event have written
WrittenSessions ==
  (IF initFetch.pc = "resolved" THEN {initFetch.value} ELSE {})
    \cup (IF lastEvent # << >> THEN {lastEvent[1]} ELSE {})

\* C20: with sign-in and sign-out calls overlapping in every order, loading is
\* the value its most recent writer wrote (true from mount and from the start
\* of a sign-in, false from the fetch, an event and a failed sign-in); when a
\* sign-in fails loading is false then, also with other calls still in flight;
\* and user and session are what the initial fetch or the latest event wrote,
\* never something a sign-in or sign-out call wrote.
C20_LoadingLastWriteWins ==
  mounted =>
    /\ store.loading <=> loadingWriter \in {"mount", "signInWithGoogle"}
    /\ (last.op = "signInWithGoogle" /\ last.outcome # "ok")
         => (~store.loading /\ loadingWriter = "signInWithGoogle.catch")
    /\ (signIns = << >> /\ loadingWriter = "signInWithGoogle.catch") => ~store.loading
    /\ store.session \in (IF WrittenSessions = {} THEN {NoSession} ELSE WrittenSessions)
    /\ store.user = SessionUser(store.session)

C20_Witness ==
  /\ last.op = "signInWithGoogle" /\ last.outcome = "error"
  /\ Len(signIns) = 1 /\ signOuts = 1
  /\ ~store.loading /\ store.user # NoUser

\* C21 as stated: when the initial getSession has completed with a failure (an
\* answer carrying an error, or a rejection) and no auth event has been
\* delivered, loading is false and user and session are null.
C21_LoadingFalseAfterFailedFetch ==
  (mounted /\ last.op = "getInitialSession" /\ last.outcome # "ok" /\ lastEvent = << >>)
    => (~store.loading /\ store.user = NoUser /\ store.session = NoSession)

\* C22 as stated: loading set to true by a signInWithGoogle call whose backend
\* call is still pending stays true until an auth event or the initial fetch
\* writes the store.
C22_LoadingHeldUntilEvent ==
  [][ (/\ store.loading /\ loadingWriter = "signInWithGoogle" /\ ~store'.loading
       /\ signIns # << >> /\ signIns' # << >>
       /\ signIns'[Len(signIns')] = signIns[Len(signIns)])
        => last'.op \in {"onAuthStateChange", "getInitialSession"}
    ]_vars

\* C22, amended: the start of signInWithGoogle writes loading = true and
\* nothing else; a successful completion leaves user, session and loading as
\* they are and sends the browser towards /auth/callback; loading written by a
\* sign-in goes back to false only by an auth event, the initial fetch, or the
\* catch block of a sign-in call that failed.
C22_SignInHoldsLoading ==
  [][ /\ last'.op = "signInWithGoogle.start"
        => (/\ store' = [store EXCEPT !.loading = TRUE]
            /\ Contains(last'.effects, <<"setLoading", "true">>))
      /\ (last'.op = "signInWithGoogle" /\ last'.outcome = "ok")
        => (store' = store /\ pendingNav' = CallbackPath)
      /\ (store.loading /\ loadingWriter = "signInWithGoogle" /\ ~store'.loading)
        => \/ last'.op \in {"onAuthStateChange", "getInitialSession"}
           \/ last'.op = "signInWithGoogle" /\ Thrown(last'.outcome)
    ]_vars

C22_Witness ==
  /\ last.op = "signInWithGoogle" /\ last.outcome = "ok"
  /\ store.loading /\ store.user = NoUser /\ pendingNav = CallbackPath
  /\ loadingWriter = "signInWithGoogle"

Translating == View = "TranslationModule" /\ local.isTranslating
Processing  == View = "VoiceModule" /\ local.isProcessing

\* C23: a mock that is busy has exactly one completion timeout pending and one
\* that is not busy has none (the start control is disabled while busy), and
\* every started mock ends: the busy flag of the presenter is false again, or
\* the presenter has been left.
C23_MocksComplete ==
  /\ [](View = "TranslationModule"
          => (local.pending = IF local.isTranslating THEN 1 ELSE 0))
  /\ [](View = "VoiceModule"
          => (local.pending = IF local.isProcessing THEN 1 ELSE 0))
  /\ Translating ~> ~Translating
  /\ Processing ~> ~Processing

C23_Witness ==
  /\ View = "VoiceModule" /\ last.op = "presenter"
  /\ ~local.isProcessing /\ local.pending = 0 /\ store.user # NoUser

OnCallbackRoute == mounted /\ Pathname(url) = CallbackPath

\* C24: a handler run that is still in its delay has neither re-fetched nor
\* redirected, and every visit to the callback route comes to a redirect to
\* the root path being issued.
C24_CallbackLeaves ==
  /\ [](\A i \in DOMAIN runs :
          runs[i].pc = "delay" => (~runs[i].fetched /\ runs[i].redirects = << >>))
  /\ OnCallbackRoute ~>
       (OnCallbackRoute /\ pendingNav # NoNav /\ Pathname(pendingNav) = RootUrl)

C24_Witness ==
  /\ OnCallbackRoute /\ pendingNav = UnexpectedUrl
  /\ last.op = "handleAuthCallback" /\ last.outcome = "throw"
  /\ Len(runs) = 1

\* C25 as stated: while user is null the current screen changes only in a
\* navigate step (or by loading a new document).
C25_ScreenOnlyByNavigate ==
  [][ (store.user = NoUser /\ store'.user = NoUser /\ currentPage' # currentPage)
        => last'.op \in {"navigate", "mount"}
    ]_vars

\* C26 as stated: a redirect timeout that fires changes the screen only when
\* the screen is still "landing" and user is still non-null.
C26_RedirectOnlyFromLanding ==
  [][ (last'.op = "redirectTick" /\ currentPage' # currentPage)
        => (currentPage = "landing" /\ store.user # NoUser)
    ]_vars

\* C27 as stated: during one visit to the callback route at most one handler
\* run issues a redirect.
C27_AtMostOneRedirect ==
  Cardinality({ i \in DOMAIN runs : runs[i].redirects # << >> }) <= 1

\* C28: the identity controls show the spinner exactly when loading is true,
\* the profile with Logout exactly when loading is false and user is non-null,
\* and the sign-in control (or guest greeting) exactly when loading is false
\* and user is null; a signInWithGoogle call starts only from loading = false
\* and user = null, a signOut call only from loading = false and user non-null.
C28_IdentityControls ==
  /\ [](\A l \in BOOLEAN, x \in {NoSession} \cup Sessions :
          LET st == [user |-> SessionUser(x), session |-> x, loading |-> l]
          IN /\ IdentityView(st) = "spinner" <=> l
             /\ IdentityView(st) = "profile" <=> (~l /\ st.user # NoUser)
             /\ IdentityView(st) = "signin"  <=> (~l /\ st.user = NoUser))
  /\ [][ /\ last'.op = "signInWithGoogle.start"
           => (~store.loading /\ store.user = NoUser)
         /\ last'.op = "signOut.start"
           => (~store.loading /\ store.user # NoUser)
       ]_vars

C28_Witness ==
  /\ last.op = "signOut.start" /\ View = "LearnerModule"
  /\ ~store.loading /\ store.user # NoUser /\ signOuts = 1

\* the direct transitions the claim lists
AllowedTransitions ==
  { <<"landing", "learner">>, <<"landing", "admin">>, <<"learner", "landing">>,
    <<"admin", "landing">>, <<"admin", "translation">>, <<"admin", "voice">>,
    <<"translation", "admin">>, <<"voice", "admin">> }

NavStep(S) == S \cup UNION { NavControls(p) : p \in S }

\* the screens within four clicks of p
NavReach(p) == NavStep(NavStep(NavStep(NavStep({p}))))

\* C29: the navigation controls of the presenters are exactly the listed
\* transitions and every navigate step is one of them; translation and voice
\* are entered only from admin; and through the controls every screen reaches
\* every other.
C29_NavigationGraph ==
  /\ [](/\ \A p, q \in Pages : q \in NavControls(p) <=> <<p, q>> \in AllowedTransitions
        /\ \A p \in Pages : NavReach(p) = Pages)
  /\ [][ /\ last'.op = "navigate" => <<currentPage, currentPage'>> \in AllowedTransitions
         /\ (currentPage' \in {"translation", "voice"} /\ currentPage' # currentPage)
              => currentPage = "admin"
       ]_vars

C29_Witness ==
  /\ last.op = "navigate" /\ last.outcome = "translation"
  /\ currentPage = "translation" /\ store.user = NoUser /\ ~store.loading

\* C30: for every glossary list, addGlossaryTerm appends one empty term and
\* keeps the entries before it; removeGlossaryTerm(i) drops the entry at index
\* i (from 0) and keeps the others in order; an index outside the list changes
\* nothing; and removing the last index after an add gives the list back.
C30_GlossaryEdits ==
  View = "TranslationModule" =>
    LET t == local.glossaryTerms
        n == Len(t)
        added == AddGlossaryTerm(t)
    IN /\ Len(added) = n + 1 /\ added[n + 1] = EmptyTerm
       /\ \A k \in 1..n : added[k] = t[k]
       /\ \A i \in 0..(n - 1) :
            LET r == RemoveGlossaryTerm(t, i)
            IN /\ Len(r) = n - 1
               /\ \A k \in 1..i : r[k] = t[k]
               /\ \A k \in (i + 1)..(n - 1) : r[k] = t[k + 1]
       /\ \A i \in {-1, n, n + 1} : RemoveGlossaryTerm(t, i) = t
       /\ RemoveGlossaryTerm(added, n) = t

C30_Witness ==
  /\ last.op = "presenter" /\ View = "TranslationModule"
  /\ local.glossaryTerms = << EmptyTerm, InitialLocal("translation").glossaryTerms[1] >>

====
